---- MODULE Spec2Model ----
(***************************************************************************)
(* Menu-matching backend (backend/src/app): the OCR line parser, the       *)
(* embedding provider, the pgvector similarity search and the resolve      *)
(* pipeline of core/food_info.py, over the Food / Menu catalog of          *)
(* db/models, and the menus / foods API of api/ over crud/.                *)
(*                                                                         *)
(* Text is a sequence of one-character strings.  Real numbers are fixed    *)
(* point with Scale units to 1.0 (0.7 is 70); the vectors used are chosen  *)
(* so that every cosine value is exact at this scale.  A vector is         *)
(* [dim, head]: its dimension and its first components, the remaining     *)
(* components being zero.                                                  *)
(***************************************************************************)
EXTENDS Integers, Sequences, FiniteSets, TLC

(***************************************************************************)
(* Bounds                                                                  *)
(***************************************************************************)
MaxFoods == 3
MaxResolveFoods == 2
MaxLines == 2
MaxTopK == 2
MaxTextLen == 5
MaxEmbedCalls == 3
MaxApiFoods == 1
MaxMenus == 1

(***************************************************************************)
(* Program constants                                                       *)
(***************************************************************************)
Scale == 100
SIMILARITY_THRESHOLD == 70
TOP_K_RESULTS == 3
Food_EMBEDDING_DIM == 768
MODEL_NAME == "jhgan/ko-sroberta-multitask"

(***************************************************************************)
(* Optional values: Python None / SQL NULL                                 *)
(***************************************************************************)
None == [some |-> FALSE]
Some(x) == [some |-> TRUE, v |-> x]
NULL == None

(***************************************************************************)
(* Text helpers: str.strip(), str.split('\n')                              *)
(***************************************************************************)
\* one text element standing for the character U+2014 (em dash)
EmDash == "u2014"
Chars == {"a", " ", ":", "-", EmDash, "\n"}
Whitespace == {" ", "\n"}
Separators == {":", EmDash, "-"}

RECURSIVE LStrip(_)
LStrip(s) ==
  IF s # <<>> /\ Head(s) \in Whitespace THEN LStrip(Tail(s)) ELSE s

RECURSIVE RStrip(_)
RStrip(s) ==
  IF s # <<>> /\ s[Len(s)] \in Whitespace
  THEN RStrip(SubSeq(s, 1, Len(s) - 1)) ELSE s

Strip(s) == RStrip(LStrip(s))

RECURSIVE SplitLines(_)
SplitLines(s) ==
  IF \E i \in 1..Len(s) : s[i] = "\n"
  THEN LET i == CHOOSE j \in 1..Len(s) :
                  s[j] = "\n" /\ \A m \in 1..(j - 1) : s[m] # "\n"
       IN  <<SubSeq(s, 1, i - 1)>> \o SplitLines(SubSeq(s, i + 1, Len(s)))
  ELSE <<s>>

(***************************************************************************)
(* pattern = ^(.*?)\s*[:—-]\s*(.*?)\s*$ matched at the start of a line     *)
(* that holds no newline.  A match puts the first i characters in group 1, *)
(* then a whitespace run, then a separator at position j.  Group 1 is      *)
(* lazy: the matcher takes the smallest i that lets the rest match.  After *)
(* the separator the greedy \s* takes the whole whitespace run, and the    *)
(* lazy group 2 is the shortest text that leaves only whitespace before    *)
(* the end of the line.                                                    *)
(***************************************************************************)
AllWhitespace(s) == \A m \in 1..Len(s) : s[m] \in Whitespace

MatchAt(line, i, j) ==
  /\ i < j
  /\ j <= Len(line)
  /\ line[j] \in Separators
  /\ \A m \in (i + 1)..(j - 1) : line[m] \in Whitespace

MatchesFrom(line, i) == \E j \in 1..Len(line) : MatchAt(line, i, j)

PatternMatches(line) == \E i \in 0..Len(line) : MatchesFrom(line, i)

\* group 1 taken greedily: the longest prefix that lets the rest match
Group1Len_greedy(line) ==
  CHOOSE i \in 0..Len(line) :
    MatchesFrom(line, i) /\ \A m \in (i + 1)..Len(line) : ~MatchesFrom(line, m)

\* (.*?): the shortest prefix that lets the rest match
Group1Len(line) ==
  CHOOSE i \in 0..Len(line) :
    MatchesFrom(line, i) /\ \A m \in 0..(i - 1) : ~MatchesFrom(line, m)

SeparatorAt(line) ==
  CHOOSE j \in 1..Len(line) : MatchAt(line, Group1Len(line), j)

Group1(line) == SubSeq(line, 1, Group1Len(line))

\* where group 2 starts: after the separator and the whitespace run
Group2Start(line) ==
  CHOOSE k \in (SeparatorAt(line) + 1)..(Len(line) + 1) :
    /\ \A m \in (SeparatorAt(line) + 1)..(k - 1) : line[m] \in Whitespace
    /\ k <= Len(line) => line[k] \notin Whitespace

Group2(line) ==
  LET rest == SubSeq(line, Group2Start(line), Len(line))
      n == CHOOSE g \in 0..Len(rest) :
             /\ AllWhitespace(SubSeq(rest, g + 1, Len(rest)))
             /\ \A m \in 0..(g - 1) :
                  ~AllWhitespace(SubSeq(rest, m + 1, Len(rest)))
  IN  SubSeq(rest, 1, n)

\* a match with an empty group treated as no match
ParseLine_emptyGroupIsNoMatch(line) ==
  IF PatternMatches(line) /\ Group1(line) # <<>> /\ Group2(line) # <<>>
  THEN [name |-> Strip(Group1(line)), price_text |-> Some(Strip(Group2(line)))]
  ELSE [name |-> line, price_text |-> None]

\* the price taken as all that follows the separator, untrimmed
ParseLine_rawPrice(line) ==
  IF PatternMatches(line)
  THEN [name |-> Strip(Group1(line)),
        price_text |-> Some(SubSeq(line, SeparatorAt(line) + 1, Len(line)))]
  ELSE [name |-> line, price_text |-> None]

\* lines 67-75: the item of one stripped, non-empty line
ParseLine(line) ==
  IF PatternMatches(line)
  THEN [name |-> Strip(Group1(line)), price_text |-> Some(Strip(Group2(line)))]
  ELSE [name |-> line, price_text |-> None]

\* every item kept, named or not
KeepItem_always(item) == TRUE

\* line 78: if item.get("name")
KeepItem(item) == item.name # <<>>

\* lines 62-82: the loop: skip blank lines, keep the items KeepItem lets in
RECURSIVE ParseLines(_)
ParseLines(lines) ==
  IF lines = <<>> THEN <<>>
  ELSE LET line == Strip(Head(lines))
           rest == ParseLines(Tail(lines))
       IN  IF line = <<>> THEN rest
           ELSE IF KeepItem(ParseLine(line))
                THEN <<ParseLine(line)>> \o rest
                ELSE rest

\* the text taken as a single line
parse_food_items_from_text_unsplit(ocr_text) == ParseLines(<<Strip(ocr_text)>>)

\* lines 59-84
parse_food_items_from_text(ocr_text) == ParseLines(SplitLines(Strip(ocr_text)))

(***************************************************************************)
(* Vectors and pgvector's cosine distance                                  *)
(***************************************************************************)
Vec(dim, head) == [dim |-> dim, head |-> head]

\* embeddings stored in foods.embedding, all of the column's dimension
StoredVectors ==
  { Vec(Food_EMBEDDING_DIM, <<1, 0, 0, 0>>),
    Vec(Food_EMBEDDING_DIM, <<7, 1, 1, 7>>),
    Vec(Food_EMBEDDING_DIM, <<3, 4, 0, 0>>) }

\* what embedding_model.encode can hand back: vectors of the column's
\* dimension, the zero vector, a vector of another dimension, the empty one
ZeroVector == Vec(Food_EMBEDDING_DIM, <<0, 0, 0, 0>>)
ShortVector == Vec(Food_EMBEDDING_DIM \div 2, <<1, 0, 0, 0>>)
EmptyVector == Vec(0, <<0, 0, 0, 0>>)
ValidQueryVectors ==
  { Vec(Food_EMBEDDING_DIM, <<1, 0, 0, 0>>),
    Vec(Food_EMBEDDING_DIM, <<3, 4, 0, 0>>) }
QueryVectors == ValidQueryVectors \cup {ZeroVector, ShortVector, EmptyVector}

IsZero(vec) == \A i \in 1..Len(vec.head) : vec.head[i] = 0
IsInvalidQueryVector(vec) ==
  vec.dim = 0 \/ vec.dim # Food_EMBEDDING_DIM \/ IsZero(vec)

RECURSIVE Dot(_, _)
Dot(a, b) ==
  IF a = <<>> THEN 0 ELSE Head(a) * Head(b) + Dot(Tail(a), Tail(b))

ISqrt(n) == CHOOSE r \in 0..n : r * r <= n /\ (r + 1) * (r + 1) > n

Norm(a) == ISqrt(Dot(a, a))

\* PostgreSQL orders NaN above every number, so NaN < x is false
NaN == Scale * Scale

\* embedding <=> query: 1 - cos, NaN when a norm is zero
cosine_distance(emb, vec) ==
  IF Norm(emb.head) = 0 \/ Norm(vec.head) = 0 THEN NaN
  ELSE Scale - (Scale * Dot(emb.head, vec.head))
                 \div (Norm(emb.head) * Norm(vec.head))

(***************************************************************************)
(* The catalog: foods is a function from the ids of the stored Food rows   *)
(* to the rows, menus likewise.                                            *)
(***************************************************************************)
FoodIds == 1..MaxFoods
MenuIds == {1}
FoodNames == {<<"a">>}

FoodRows(vectors) ==
  [menu_id : MenuIds, name : FoodNames, description : {NULL},
   embedding : {NULL} \cup {Some(e) : e \in vectors}]

Catalogs(ids, vectors) == UNION { [S -> FoodRows(vectors)] : S \in SUBSET ids }

(***************************************************************************)
(* find_similar_food_by_meaning: the query of lines 137-148                *)
(***************************************************************************)
\* the threshold used as the distance limit, without 1 - threshold
distance_limit_unconverted(threshold) == threshold

\* line 133
distance_limit(threshold) == Scale - threshold

\* a missing embedding read as distance 0
RowDistance_nullAsZero(row, vec) ==
  IF row.embedding.some THEN Some(cosine_distance(row.embedding.v, vec))
  ELSE Some(0)

\* line 139: Food.embedding.cosine_distance(vector_str); the distance of a
\* NULL embedding is NULL
RowDistance(row, vec) ==
  IF row.embedding.some THEN Some(cosine_distance(row.embedding.v, vec))
  ELSE NULL

\* line 142: the filter; a NULL distance does not pass it
PassesFilter(row, vec, limit) ==
  /\ RowDistance(row, vec).some
  /\ RowDistance(row, vec).v < limit

Matching(fs, vec, limit) ==
  { id \in DOMAIN fs : PassesFilter(fs[id], vec, limit) }

\* the statement fails when the vector text does not parse, or when a
\* distance is evaluated between vectors of different dimensions
QueryRaises(fs, vec, dbUp) ==
  \/ ~dbUp
  \/ vec.dim = 0
  \/ \E id \in DOMAIN fs :
       fs[id].embedding.some /\ fs[id].embedding.v.dim # vec.dim

IsInjective(seq) ==
  \A i, j \in 1..Len(seq) : seq[i] = seq[j] => i = j

Take(seq, n) == SubSeq(seq, 1, IF n < Len(seq) THEN n ELSE Len(seq))

\* lines 143-146: ORDER BY distance with no further key, LIMIT top_k.  The
\* order of rows at equal distance is whatever the server produces.
OrderedIds(fs, vec, limit) ==
  LET M == Matching(fs, vec, limit)
  IN  { seq \in [1..Cardinality(M) -> M] :
          /\ IsInjective(seq)
          /\ \A i \in 1..(Cardinality(M) - 1) :
               RowDistance(fs[seq[i]], vec).v
                 <= RowDistance(fs[seq[i + 1]], vec).v }

QueryAll(fs, vec, top_k, limit) ==
  { [i \in 1..Len(Take(seq, top_k)) |->
       [food |-> seq[i],
        distance |-> RowDistance(fs[seq[i]], vec).v]] :
    seq \in OrderedIds(fs, vec, limit) }

\* lines 151-154
SimilarFoods(rows) ==
  [i \in 1..Len(rows) |->
     [food |-> rows[i].food, similarity |-> Scale - rows[i].distance]]

\* what embedding_model.encode does with one text: it raises, or it hands
\* back a vector
EncodeRaises == [ok |-> FALSE]
Encoded(vec) == [ok |-> TRUE, vec |-> vec]
EncodeOutcomes == {EncodeRaises} \cup {Encoded(v) : v \in QueryVectors}

\* lines 39-50
get_embedding(model, encoded) ==
  IF model = None THEN None
  ELSE IF ~encoded.ok THEN None
  ELSE Some(encoded.vec)

Returned(value, queried) ==
  [kind |-> "return", value |-> value, queried |-> queried]
Raised(queried) == [kind |-> "raise", value |-> <<>>, queried |-> queried]

\* lines 109-111
OnModelMissing == Returned(<<>>, FALSE)

\* the embedding failure raised instead of answered with []
OnEmbeddingFailure_raise == Raised(FALSE)

\* lines 120-122
OnEmbeddingFailure == Returned(<<>>, FALSE)

\* the except clause re-raising
OnQueryError_raise == Raised(TRUE)

\* lines 162-167
OnQueryError == Returned(<<>>, TRUE)

\* the matched rows deleted from the table by the call
TableAfterQuery_consuming(fs, r) ==
  [id \in DOMAIN fs \ { r.value[j].food : j \in 1..Len(r.value) } |-> fs[id]]

\* lines 137-148: the statement is a SELECT; the foods table after it
TableAfterQuery(fs, r) == fs

\* lines 87-167: the outcomes of one call; queried tells whether the
\* statement was sent to the database
find_similar_food_by_meaning(model, dim, fs, encoded, dbUp, top_k, threshold) ==
  IF model = None \/ dim = None THEN {OnModelMissing}
  ELSE LET input_vector == get_embedding(model, encoded)
       IN  IF input_vector = None THEN {OnEmbeddingFailure}
           ELSE IF QueryRaises(fs, input_vector.v, dbUp) THEN {OnQueryError}
           ELSE { Returned(SimilarFoods(rows), TRUE) :
                    rows \in QueryAll(fs, input_vector.v, top_k,
                                      distance_limit(threshold)) }

(***************************************************************************)
(* State                                                                   *)
(***************************************************************************)
VARIABLES
  foods,            \* the foods table: id -> row
  menus,            \* the menus table: id -> row
  embedding_model,  \* food_info.embedding_model: None or the loaded model
  EMBEDDING_DIM,    \* food_info.EMBEDDING_DIM: None or the model's dimension
  pc,               \* where process_ocr_text_and_get_food_details_nlp is
  ocr_text,         \* its argument
  parsed_items,     \* its local parsed_items
  results,          \* its local results
  calls,            \* per item handled: what encode and the database did
  search,           \* arguments of direct find_similar_food_by_meaning calls
  runs,             \* what those calls gave back, in call order
  loads,            \* times SentenceTransformer(MODEL_NAME) was constructed
  embeddings,       \* direct get_embedding calls: encode outcome and result
  wanted,           \* the top_k and threshold the caller of resolve wants
  parse_input,      \* argument of a direct parse_food_items_from_text call
  parse_output,     \* what that call returned
  reparsed,         \* an item of it, written out as a line and parsed again
  foreign_keys,     \* whether the database enforces FOREIGN KEY constraints
  response          \* the last response of the menus / foods API

vars == <<foods, menus, embedding_model, EMBEDDING_DIM, pc, ocr_text,
          parsed_items, results, calls, search, runs, loads, embeddings,
          wanted, parse_input, parse_output, reparsed, foreign_keys, response>>

catalogVars == <<foods, menus>>
modelVars == <<embedding_model, EMBEDDING_DIM, loads>>
resolveVars == <<pc, ocr_text, parsed_items, results, calls>>
searchVars == <<search, runs>>
parseVars == <<parse_input, parse_output, reparsed>>
apiVars == <<foreign_keys, response>>
\* what the resolve and search calls never touch
otherVars == <<embeddings, wanted, parseVars, apiVars>>

\* lines 26-36: the module is imported once; the load succeeds or fails
ModelLoaded ==
  /\ embedding_model = Some(MODEL_NAME)
  /\ EMBEDDING_DIM = Some(Food_EMBEDDING_DIM)

ModelFailed ==
  /\ embedding_model = None
  /\ EMBEDDING_DIM = None

LoadModel ==
  /\ ModelLoaded \/ ModelFailed
  /\ loads = 1

InitMenus == [m \in MenuIds |-> [ocr_text |-> NULL, original_image_url |-> NULL]]

ResolveIdle ==
  /\ pc = "idle"
  /\ ocr_text = <<>>
  /\ parsed_items = <<>>
  /\ results = <<>>
  /\ calls = <<>>

\* lines 91-92: the defaults of top_k and threshold
DefaultArgs == [top_k |-> TOP_K_RESULTS, threshold |-> SIMILARITY_THRESHOLD]

\* no direct get_embedding or parse_food_items_from_text call is made
PureIdle ==
  /\ embeddings = <<>>
  /\ parse_input = <<>>
  /\ parse_output = None
  /\ reparsed = None

NoResponse == [op |-> "none", id |-> 0, ret |-> "none", status |-> 0]

\* no request has reached the menus / foods API
ApiIdle ==
  /\ foreign_keys = TRUE
  /\ response = NoResponse

(***************************************************************************)
(* Direct calls of find_similar_food_by_meaning: two calls with the same   *)
(* name (so the same encode outcome), top_k and catalog, the first with    *)
(* threshold1 and the second with threshold2.                              *)
(***************************************************************************)
Thresholds == {60, SIMILARITY_THRESHOLD, 80}

SearchInputs ==
  [encoded : EncodeOutcomes, dbUp : BOOLEAN, top_k : 0..MaxTopK,
   threshold1 : Thresholds, threshold2 : Thresholds]

InitSearch ==
  /\ foods \in Catalogs(FoodIds, StoredVectors)
  /\ menus = InitMenus
  /\ LoadModel
  /\ ResolveIdle
  /\ search \in SearchInputs
  /\ runs = <<>>
  /\ wanted = DefaultArgs
  /\ PureIdle
  /\ ApiIdle

ThresholdOf(i) == IF i = 1 THEN search.threshold1 ELSE search.threshold2

SearchCall ==
  /\ Len(runs) < 2
  /\ \E r \in find_similar_food_by_meaning(
                 embedding_model, EMBEDDING_DIM, foods, search.encoded,
                 search.dbUp, search.top_k, ThresholdOf(Len(runs) + 1)) :
        /\ runs' = Append(runs, r)
        /\ foods' = TableAfterQuery(foods, r)
  /\ UNCHANGED <<menus, modelVars, resolveVars, search, otherVars>>

NextSearch == SearchCall

SpecSearch == InitSearch /\ [][NextSearch]_vars

(***************************************************************************)
(* process_ocr_text_and_get_food_details_nlp (resolve): one call, while    *)
(* the catalog is written by other requests (delete_food).  The loop index *)
(* is Len(calls); pc is "done" once the call has returned and "raised"     *)
(* once an exception has left it.                                          *)
(***************************************************************************)
\* the OCR text: up to MaxLines lines joined by newlines; a line with a
\* price, one without, a blank one, one with no name before the separator
OcrLines == { <<"a">>, <<"a", ":", "a">>, <<" ">>, <<":", "a">> }

RECURSIVE JoinLines(_)
JoinLines(ls) ==
  IF ls = <<>> THEN <<>>
  ELSE IF Len(ls) = 1 THEN Head(ls)
  ELSE Head(ls) \o <<"\n">> \o JoinLines(Tail(ls))

OcrTexts ==
  { JoinLines(ls) : ls \in UNION { [1..n -> OcrLines] : n \in 0..MaxLines } }

\* what encode does for the items of one resolve call: it raises, hands
\* back a usable vector, or one of another dimension
ResolveEncodeOutcomes ==
  { EncodeRaises, Encoded(Vec(Food_EMBEDDING_DIM, <<1, 0, 0, 0>>)),
    Encoded(ShortVector) }

\* the embeddings stored in the catalog of the resolve call: similarity 1
\* and similarity 0.7 to that vector
ResolveStoredVectors ==
  { Vec(Food_EMBEDDING_DIM, <<1, 0, 0, 0>>),
    Vec(Food_EMBEDDING_DIM, <<7, 1, 1, 7>>) }

NoSearch ==
  [encoded |-> EncodeRaises, dbUp |-> TRUE, top_k |-> 0,
   threshold1 |-> SIMILARITY_THRESHOLD, threshold2 |-> SIMILARITY_THRESHOLD]

Init ==
  /\ foods \in Catalogs(1..MaxResolveFoods, ResolveStoredVectors)
  /\ menus = InitMenus
  /\ LoadModel
  /\ ResolveIdle
  /\ search = NoSearch
  /\ runs = <<>>
  /\ wanted = DefaultArgs
  /\ PureIdle
  /\ ApiIdle

\* lines 184-185
StartResolve ==
  /\ pc = "idle"
  /\ \E text \in OcrTexts :
        /\ ocr_text' = text
        /\ parsed_items' = parse_food_items_from_text(text)
  /\ results' = <<>>
  /\ calls' = <<>>
  /\ pc' = "loop"
  /\ UNCHANGED <<catalogVars, modelVars, searchVars, otherVars>>

\* lines 194-202
result_item(item, similar_foods_with_scores) ==
  [parsed_name |-> item.name,
   price_text |-> item.price_text,
   similar_foods |-> similar_foods_with_scores]

\* items without candidates left out of the results
AppendResult_skipUnmatched(rs, item, similar_foods_with_scores) ==
  IF similar_foods_with_scores = <<>> THEN rs
  ELSE Append(rs, result_item(item, similar_foods_with_scores))

\* line 203
AppendResult(rs, item, similar_foods_with_scores) ==
  Append(rs, result_item(item, similar_foods_with_scores))

\* the caller's values handed on to the search
SearchArgs_fromCaller(w) == w

\* line 192: find_similar_food_by_meaning(db, parsed_name) passes neither
\* top_k nor threshold, and resolve (line 171) has no parameter for them:
\* whatever its caller wants, the search runs with the defaults
SearchArgs(w) == DefaultArgs

\* lines 187-203: one iteration of the loop.  An exception leaving the
\* search would leave resolve too.  calls records what encode and the
\* database did, and the top_k and threshold the search was called with.
ResolveItem ==
  /\ pc = "loop"
  /\ Len(calls) < Len(parsed_items)
  /\ LET item == parsed_items[Len(calls) + 1]
     IN  \E encoded \in ResolveEncodeOutcomes, dbUp \in BOOLEAN :
           \E r \in find_similar_food_by_meaning(
                       embedding_model, EMBEDDING_DIM, foods, encoded, dbUp,
                       SearchArgs(wanted).top_k,
                       SearchArgs(wanted).threshold) :
             \* encode is not reached without a model, nor the database
             \* without a vector: they have no outcome then
             /\ embedding_model = None => encoded = EncodeRaises
             /\ ~encoded.ok => dbUp
             /\ calls' = Append(calls,
                                [encoded |-> encoded, dbUp |-> dbUp,
                                 top_k |-> SearchArgs(wanted).top_k,
                                 threshold |-> SearchArgs(wanted).threshold])
             /\ foods' = TableAfterQuery(foods, r)
             /\ IF r.kind = "raise"
                THEN pc' = "raised" /\ UNCHANGED results
                ELSE pc' = pc /\ results' = AppendResult(results, item, r.value)
  /\ UNCHANGED <<menus, modelVars, ocr_text, parsed_items, searchVars, otherVars>>

\* line 205
ResolveReturn ==
  /\ pc = "loop"
  /\ Len(calls) = Len(parsed_items)
  /\ pc' = "done"
  /\ UNCHANGED <<catalogVars, modelVars, ocr_text, parsed_items, results,
                 calls, searchVars, otherVars>>

\* crud_food.delete_food, lines 129-146, called by another request
delete_food ==
  /\ \E food_id \in FoodIds :
        IF food_id \in DOMAIN foods
        THEN foods' = [id \in DOMAIN foods \ {food_id} |-> foods[id]]
        ELSE UNCHANGED foods
  /\ UNCHANGED <<menus, modelVars, resolveVars, searchVars, otherVars>>

Next ==
  \/ StartResolve
  \/ ResolveItem
  \/ ResolveReturn
  \/ delete_food

Spec == Init /\ [][Next]_vars

(***************************************************************************)
(* One resolve call by a caller who wants the search run with a top_k and  *)
(* a threshold of its own.                                                 *)
(***************************************************************************)
WantedArgs == {DefaultArgs, [top_k |-> 1, threshold |-> 60]}

InitOverride ==
  /\ foods \in Catalogs(1..MaxResolveFoods, ResolveStoredVectors)
  /\ menus = InitMenus
  /\ LoadModel
  /\ ResolveIdle
  /\ search = NoSearch
  /\ runs = <<>>
  /\ wanted \in WantedArgs
  /\ PureIdle
  /\ ApiIdle

NextOverride ==
  \/ StartResolve
  \/ ResolveItem
  \/ ResolveReturn

SpecOverride == InitOverride /\ [][NextOverride]_vars

(***************************************************************************)
(* Direct calls of get_embedding, up to MaxEmbedCalls of them.             *)
(***************************************************************************)
InitEmbed ==
  /\ foods \in Catalogs({}, {})
  /\ menus = InitMenus
  /\ LoadModel
  /\ ResolveIdle
  /\ search = NoSearch
  /\ runs = <<>>
  /\ wanted = DefaultArgs
  /\ PureIdle
  /\ ApiIdle

\* a call that finds no model constructing one
LoadsAfterCall_retry(model, n) == IF model = None THEN n + 1 ELSE n

\* lines 39-50: get_embedding constructs no model
LoadsAfterCall(model, n) == n

\* lines 39-50; encoded is what encode does with the text if it is called
GetEmbeddingCall ==
  /\ Len(embeddings) < MaxEmbedCalls
  /\ \E encoded \in EncodeOutcomes :
        embeddings' =
          Append(embeddings,
                 [encoded |-> encoded,
                  result |-> get_embedding(embedding_model, encoded)])
  /\ loads' = LoadsAfterCall(embedding_model, loads)
  /\ UNCHANGED <<catalogVars, embedding_model, EMBEDDING_DIM, resolveVars,
                 searchVars, wanted, parseVars, apiVars>>

NextEmbed == GetEmbeddingCall

SpecEmbed == InitEmbed /\ [][NextEmbed]_vars

(***************************************************************************)
(* The menus / foods API (api/menus.py, api/foods.py) over crud_menu and   *)
(* crud_food.  A crud function is an operator from the tables and its      *)
(* arguments to the tables after it and what it returned or raised:        *)
(* "row", "None", or the name of the exception.  A field of an update      *)
(* payload is unset, or set to None or to a value.                         *)
(***************************************************************************)
ApiFoodIds == 1..MaxApiFoods
ApiMenuIds == 1..MaxMenus
\* the menu ids a request can name: one more than can be stored
MenuRefs == 1..(MaxMenus + 1)

Texts == {NULL, Some(<<"a">>)}

ApiFoodRows ==
  [menu_id : MenuRefs, name : FoodNames, description : Texts,
   embedding : {NULL}]

MenuRows == [ocr_text : Texts, original_image_url : Texts]

Unset == [set |-> FALSE]
SetTo(value) == [set |-> TRUE, value |-> value]

FieldArgs(values) == {Unset, SetTo(None)} \cup {SetTo(Some(x)) : x \in values}

\* schemas/food.py 30-33 (the fields of FoodBase other than name and
\* description behave as description does)
FoodUpdates ==
  [name : FieldArgs(FoodNames), description : FieldArgs({<<"a">>}),
   menu_id : FieldArgs(MenuRefs)]

\* schemas/food.py 25-26
FoodCreates == [name : FoodNames, description : Texts, menu_id : MenuRefs]

\* schemas/menu.py 28-32
MenuUpdates ==
  [ocr_text : FieldArgs({<<"a">>}), original_image_url : FieldArgs({<<"a">>})]

Outcome(fs, ms, ret) == [foods |-> fs, menus |-> ms, ret |-> ret]

\* the menu not looked up before the Food is built
create_food_for_menu_unchecked(fs, ms, food, menu_id) ==
  Outcome(fs, ms, "TypeError")

\* crud_food.py 17-45.  Line 41 is Food(**food.model_dump(), menu_id=menu_id):
\* model_dump() of a FoodCreate holds the key menu_id, so the call raises
\* TypeError (two values for one keyword) and lines 42-45 are never reached.
create_food_for_menu(fs, ms, food, menu_id) ==
  IF menu_id \notin DOMAIN ms THEN Outcome(fs, ms, "ValueError")
  ELSE Outcome(fs, ms, "TypeError")

\* what db.commit() of an updated Food does: NOT NULL on name and menu_id;
\* the FOREIGN KEY on menu_id only where the database enforces it
\* (PostgreSQL does; SQLite, the default DATABASE_URL, does not unless
\* PRAGMA foreign_keys is switched on, and nothing switches it on)
FoodCommitRaises(ms, enforced, update_data) ==
  \/ update_data.name.set /\ update_data.name.value = None
  \/ update_data.menu_id.set /\ update_data.menu_id.value = None
  \/ /\ enforced
     /\ update_data.menu_id.set
     /\ update_data.menu_id.value.some
     /\ update_data.menu_id.value.v \notin DOMAIN ms

\* crud_food.py 117-120: setattr for every field that was set
FoodAfterSetattr(row, update_data) ==
  [row EXCEPT
     !.name = IF update_data.name.set THEN update_data.name.value.v ELSE @,
     !.description =
        IF update_data.description.set
        THEN update_data.description.value ELSE @,
     !.menu_id =
        IF update_data.menu_id.set THEN update_data.menu_id.value.v ELSE @]

\* crud_food.py 98-125
update_food(fs, ms, enforced, food_id, food_update) ==
  IF food_id \notin DOMAIN fs THEN Outcome(fs, ms, "None")
  ELSE IF FoodCommitRaises(ms, enforced, food_update)
  THEN Outcome(fs, ms, "IntegrityError")
  ELSE Outcome([fs EXCEPT ![food_id] = FoodAfterSetattr(@, food_update)],
               ms, "row")

\* crud_food.py 129-146
crud_delete_food(fs, ms, food_id) ==
  IF food_id \notin DOMAIN fs THEN Outcome(fs, ms, "None")
  ELSE Outcome([id \in DOMAIN fs \ {food_id} |-> fs[id]], ms, "row")

\* crud_menu.py 17-34; new_id is the id the database gives the row
create_menu(fs, ms, menu, new_id) ==
  Outcome(fs, [id \in DOMAIN ms \cup {new_id} |->
                 IF id = new_id THEN menu ELSE ms[id]], "row")

\* crud_menu.py 91-95
MenuAfterSetattr(row, update_data) ==
  [row EXCEPT
     !.ocr_text =
        IF update_data.ocr_text.set THEN update_data.ocr_text.value ELSE @,
     !.original_image_url =
        IF update_data.original_image_url.set
        THEN update_data.original_image_url.value ELSE @]

\* crud_menu.py 71-100
update_menu(fs, ms, menu_id, menu_update) ==
  IF menu_id \notin DOMAIN ms THEN Outcome(fs, ms, "None")
  ELSE Outcome(fs, [ms EXCEPT ![menu_id] = MenuAfterSetattr(@, menu_update)],
               "row")

\* crud_menu.py 104-122; db.delete(db_menu) deletes the menu's foods too
\* (models/menu.py 32: cascade="all, delete-orphan")
delete_menu(fs, ms, menu_id) ==
  IF menu_id \notin DOMAIN ms THEN Outcome(fs, ms, "None")
  ELSE Outcome([id \in {f \in DOMAIN fs : fs[f].menu_id # menu_id} |-> fs[id]],
               [id \in DOMAIN ms \ {menu_id} |-> ms[id]], "row")

\* the status of the response: ValueError and None are mapped to 404 by the
\* handlers, any other exception leaves the handler (500)
StatusOf(created, ret) ==
  IF ret = "row" THEN (IF created THEN 201 ELSE 200)
  ELSE IF ret \in {"None", "ValueError"} THEN 404
  ELSE 500

\* the tables after the crud call, and the handler's response
Respond(op, id, created, out) ==
  /\ foods' = out.foods
  /\ menus' = out.menus
  /\ response' = [op |-> op, id |-> id, ret |-> out.ret,
                  status |-> StatusOf(created, out.ret)]

\* what no handler touches
apiRest == <<modelVars, resolveVars, searchVars, embeddings, wanted,
             parseVars, foreign_keys>>

\* main.py 7-13: the API process imports the routers, crud and the models,
\* never core/food_info: no model is constructed in it
NotImported ==
  /\ embedding_model = None
  /\ EMBEDDING_DIM = None
  /\ loads = 0

\* the tables as a database with its constraints in force has them
InitApi ==
  /\ menus \in UNION { [S -> MenuRows] : S \in SUBSET ApiMenuIds }
  /\ foods \in UNION { [S -> ApiFoodRows] : S \in SUBSET ApiFoodIds }
  /\ \A id \in DOMAIN foods : foods[id].menu_id \in DOMAIN menus
  /\ NotImported
  /\ ResolveIdle
  /\ search = NoSearch
  /\ runs = <<>>
  /\ wanted = DefaultArgs
  /\ PureIdle
  /\ foreign_keys \in BOOLEAN
  /\ response = NoResponse

\* api/foods.py 31-57
create_new_food ==
  /\ \E food_in \in FoodCreates :
       Respond("create_new_food", food_in.menu_id, TRUE,
               create_food_for_menu(foods, menus, food_in, food_in.menu_id))
  /\ UNCHANGED apiRest

\* api/foods.py 94-107
update_existing_food ==
  /\ \E food_id \in ApiFoodIds, food_in \in FoodUpdates :
       Respond("update_existing_food", food_id, FALSE,
               update_food(foods, menus, foreign_keys, food_id, food_in))
  /\ UNCHANGED apiRest

\* api/foods.py 112-124
delete_existing_food ==
  /\ \E food_id \in ApiFoodIds :
       Respond("delete_existing_food", food_id, FALSE,
               crud_delete_food(foods, menus, food_id))
  /\ UNCHANGED apiRest

\* api/menus.py 33-72: without an image both columns are NULL, with one
\* both are set
create_new_menu ==
  /\ \E menu_image \in Texts, new_id \in ApiMenuIds \ DOMAIN menus :
       Respond("create_new_menu", new_id, TRUE,
               create_menu(foods, menus,
                           [ocr_text |-> menu_image,
                            original_image_url |-> menu_image], new_id))
  /\ UNCHANGED apiRest

\* api/menus.py 114-128
update_existing_menu ==
  /\ \E menu_id \in MenuRefs, menu_in \in MenuUpdates :
       Respond("update_existing_menu", menu_id, FALSE,
               update_menu(foods, menus, menu_id, menu_in))
  /\ UNCHANGED apiRest

\* api/menus.py 133-148
delete_existing_menu ==
  /\ \E menu_id \in MenuRefs :
       Respond("delete_existing_menu", menu_id, FALSE,
               delete_menu(foods, menus, menu_id))
  /\ UNCHANGED apiRest

NextApi ==
  \/ create_new_food
  \/ update_existing_food
  \/ delete_existing_food
  \/ create_new_menu
  \/ update_existing_menu
  \/ delete_existing_menu

SpecApi == InitApi /\ [][NextApi]_vars

(***************************************************************************)
(* Properties of resolve (Spec)                                            *)
(***************************************************************************)
CallIndexes == 1..Len(calls)

Embedded == { id \in DOMAIN foods : foods[id].embedding.some }

\* get_embedding gave None for the i-th item: no model, or encode raised
EmbeddingFailed(i) == embedding_model = None \/ ~calls[i].encoded.ok

\* the query of the i-th item was sent and the database did not answer
CatalogUnreachable(i) ==
  /\ embedding_model # None
  /\ calls[i].encoded.ok
  /\ ~calls[i].dbUp

\* the query of the i-th item was evaluated normally
CallNormal(i) ==
  /\ embedding_model # None
  /\ calls[i].encoded.ok
  /\ ~IsInvalidQueryVector(calls[i].encoded.vec)
  /\ calls[i].dbUp

\* C1: resolve returns, and returns one result per item of
\* parse_food_items_from_text(ocr_text), in the same order, with the same
\* name and price text, whatever encode and the database did for any item.
C1_OneResultPerItem ==
  LET items == parse_food_items_from_text(ocr_text)
  IN  /\ pc # "raised"
      /\ Len(results) = Len(calls)
      /\ Len(results) <= Len(items)
      /\ \A i \in 1..Len(results) :
           /\ results[i].parsed_name = items[i].name
           /\ results[i].price_text = items[i].price_text
      /\ pc = "done" => Len(results) = Len(items)

C1_Witness ==
  /\ pc = "done"
  /\ Len(results) = 2
  /\ results[1].price_text.some
  /\ ~results[2].price_text.some
  /\ CatalogUnreachable(1)
  /\ results[2].similar_foods # <<>>

\* the candidates in cands come from a search of the catalog fs with the
\* vector vec alone: each is a record of fs with its similarity to vec, none
\* below the threshold, every record above the threshold among them unless
\* top_k cut it
FromOwnCall(cands, fs, vec) ==
  LET sim(id) == Scale - cosine_distance(fs[id].embedding.v, vec)
      got == { cands[j].food : j \in 1..Len(cands) }
      above == { id \in DOMAIN fs :
                   fs[id].embedding.some /\ sim(id) > SIMILARITY_THRESHOLD }
  IN  /\ \A j \in 1..Len(cands) :
           /\ cands[j].food \in DOMAIN fs
           /\ fs[cands[j].food].embedding.some
           /\ cands[j].similarity = sim(cands[j].food)
           /\ cands[j].similarity >= SIMILARITY_THRESHOLD
      /\ Len(cands) <= TOP_K_RESULTS
      /\ Len(cands) < TOP_K_RESULTS => above \subseteq got

EmbeddingFailuresAnswered ==
  /\ pc # "raised"
  /\ Len(results) = Len(calls)
  /\ pc = "done" => Len(results) = Len(parsed_items)
  /\ \A i \in 1..Len(results) :
       EmbeddingFailed(i) => results[i].similar_foods = <<>>

\* a step that handles an item whose query is evaluated normally appends
\* the candidates of that item's own search of the catalog as it is at
\* that step, whatever happened to the items before it
OtherItemsUnaffected ==
  (Len(calls') = Len(calls) + 1 /\ Len(results') = Len(calls')
     /\ embedding_model # None
     /\ calls'[Len(calls')].encoded.ok
     /\ ~IsInvalidQueryVector(calls'[Len(calls')].encoded.vec)
     /\ calls'[Len(calls')].dbUp)
    => FromOwnCall(results'[Len(results')].similar_foods, foods,
                   calls'[Len(calls')].encoded.vec)

\* C6: an item whose embedding failed (no model: every item; encode
\* raised: that item) gets a result with no candidates, the other items
\* get the candidates of their own search, and no exception leaves resolve.
C6_EmbeddingFailureIsolated ==
  []EmbeddingFailuresAnswered /\ [][OtherItemsUnaffected]_vars

C6_Witness ==
  /\ pc = "done"
  /\ embedding_model # None
  /\ Len(results) = 2
  /\ ~calls[1].encoded.ok
  /\ CallNormal(2)
  /\ results[2].similar_foods # <<>>

\* C7: when the database cannot be reached for the query of some item,
\* resolve fails: it does not return a result list.
C7_CatalogFailureReachesCaller ==
  pc = "done" => \A i \in CallIndexes : ~CatalogUnreachable(i)

\* C7 as amended: when the database cannot be reached for the query of an
\* item, the search catches the error and returns no candidates for that
\* item; resolve goes on and returns its normal result list.
C7_CatalogFailureIsSwallowed ==
  /\ pc # "raised"
  /\ \A i \in CallIndexes :
       CatalogUnreachable(i) =>
         /\ i <= Len(results)
         /\ results[i].similar_foods = <<>>

C7_Witness ==
  /\ pc = "done"
  /\ Len(results) = 2
  /\ CatalogUnreachable(2)
  /\ calls[2].encoded.vec \in ValidQueryVectors
  /\ Embedded # {}

\* C9: no step of resolve changes the catalog: the Food and Menu records
\* and all their fields are the same after the step as before it, also
\* when the embedding or the query of the step fails.
C9_ResolveReadOnly ==
  [][resolveVars' # resolveVars => catalogVars' = catalogVars]_vars

C9_Witness ==
  /\ pc = "done"
  /\ Len(calls) = 2
  /\ EmbeddingFailed(1)
  /\ CatalogUnreachable(2)
  /\ results[1].price_text.some
  /\ Cardinality(DOMAIN foods) = 1

(***************************************************************************)
(* Properties of the search (SpecSearch)                                   *)
(***************************************************************************)
RunIndexes == 1..Len(runs)

\* the query was evaluated normally: model loaded, the text encoded to a
\* usable vector, the database reachable
SearchNormal ==
  /\ embedding_model # None
  /\ search.encoded.ok
  /\ ~IsInvalidQueryVector(search.encoded.vec)
  /\ search.dbUp

\* cosine similarity of a stored record to the query
Similarity(id) ==
  Scale - cosine_distance(foods[id].embedding.v, search.encoded.vec)

\* the records the contract admits: similarity >= threshold
Qualifying(threshold) == { id \in Embedded : Similarity(id) >= threshold }

ReturnedFoods(r) == { r.value[j].food : j \in 1..Len(r.value) }

Min(a, b) == IF a < b THEN a ELSE b

FilterThenTake(r, threshold) ==
  /\ Len(r.value) <= search.top_k
  /\ Len(r.value) = Min(search.top_k, Cardinality(Qualifying(threshold)))
  /\ ReturnedFoods(r) \subseteq Qualifying(threshold)
  /\ Cardinality(ReturnedFoods(r)) = Len(r.value)
  /\ \A j \in 1..Len(r.value) :
       r.value[j].similarity = Similarity(r.value[j].food)
  /\ \A j \in 1..(Len(r.value) - 1) :
       r.value[j].similarity >= r.value[j + 1].similarity
  /\ \A id \in Qualifying(threshold) \ ReturnedFoods(r) :
       \A j \in 1..Len(r.value) : Similarity(id) <= r.value[j].similarity

\* C2: a normally evaluated search returns the records with similarity >=
\* threshold, sorted by similarity descending, cut to top_k: at most top_k
\* entries, exactly top_k when more qualify, and no omitted qualifying
\* record beats a returned one.
C2_FilterThenTake ==
  SearchNormal =>
    \A i \in RunIndexes : FilterThenTake(runs[i], ThresholdOf(i))

\* C3: every returned candidate has similarity >= the threshold of its
\* call, and with threshold1 <= threshold2 the second call never returns
\* more candidates than the first.
C3_ThresholdMonotone ==
  /\ \A i \in RunIndexes : \A j \in 1..Len(runs[i].value) :
       runs[i].value[j].similarity >= ThresholdOf(i)
  /\ (Len(runs) = 2 /\ search.threshold1 <= search.threshold2)
       => Len(runs[2].value) <= Len(runs[1].value)

C3_Witness ==
  /\ Len(runs) = 2
  /\ search.threshold1 < search.threshold2
  /\ Len(runs[2].value) >= 1
  /\ Len(runs[2].value) < Len(runs[1].value)

\* C4: a record whose similarity is >= threshold is returned whenever fewer
\* than top_k other records have a similarity at least as high, a record
\* exactly at the threshold included.
C4_AtThresholdIsCandidate ==
  SearchNormal =>
    \A i \in RunIndexes : \A id \in Qualifying(ThresholdOf(i)) :
      Cardinality({ o \in Embedded \ {id} : Similarity(o) >= Similarity(id) })
          < search.top_k
        => id \in ReturnedFoods(runs[i])

\* C5: two calls with the same name, top_k, threshold and catalog return
\* the same candidate list in the same order.
C5_Deterministic ==
  (SearchNormal /\ Len(runs) = 2 /\ search.threshold1 = search.threshold2)
    => runs[1].value = runs[2].value

InvalidVectorCall ==
  /\ embedding_model # None
  /\ search.encoded.ok
  /\ IsInvalidQueryVector(search.encoded.vec)

\* C8: a zero, empty or wrong-dimension query vector is rejected with a
\* failure before the query is sent; it is not answered with an ordinary
\* list.
C8_InvalidVectorRejected ==
  (InvalidVectorCall /\ search.dbUp) =>
    \A i \in RunIndexes : runs[i].kind = "raise" /\ ~runs[i].queried

\* C8 as amended: a zero, empty or wrong-dimension query vector is not
\* checked: the query is sent with it, and the call returns the ordinary
\* empty candidate list.
C8_InvalidVectorYieldsEmpty ==
  InvalidVectorCall =>
    \A i \in RunIndexes : runs[i] = Returned(<<>>, TRUE)

C8_Witness ==
  /\ InvalidVectorCall
  /\ search.encoded.vec.dim # Food_EMBEDDING_DIM
  /\ search.dbUp
  /\ Embedded # {}
  /\ Len(runs) = 2

\* C10: a record without an embedding is never a candidate, and a search
\* of a catalog with no embedded record returns the empty list, not an
\* error.
C10_UnembeddedExcluded ==
  \A i \in RunIndexes :
    /\ \A j \in 1..Len(runs[i].value) :
         /\ runs[i].value[j].food \in DOMAIN foods
         /\ foods[runs[i].value[j].food].embedding.some
    /\ Embedded = {} => runs[i] \in {Returned(<<>>, TRUE), Returned(<<>>, FALSE)}

C10_Witness ==
  /\ SearchNormal
  /\ Len(runs) >= 1
  /\ search.top_k >= 1
  /\ DOMAIN foods # {}
  /\ Embedded = {}

(***************************************************************************)
(* Direct calls of parse_food_items_from_text: one call on a text of up to *)
(* MaxTextLen characters, then a second call on one of the returned items  *)
(* that has a price, written out as the line name + ": " + price_text.     *)
(***************************************************************************)
ParseTexts == UNION { [1..n -> Chars] : n \in 0..MaxTextLen }

InitParse ==
  /\ foods \in Catalogs({}, {})
  /\ menus = InitMenus
  /\ LoadModel
  /\ ResolveIdle
  /\ search = NoSearch
  /\ runs = <<>>
  /\ wanted = DefaultArgs
  /\ embeddings = <<>>
  /\ parse_input \in ParseTexts
  /\ parse_output = None
  /\ reparsed = None
  /\ ApiIdle

ParseCall ==
  /\ parse_output = None
  /\ parse_output' = Some(parse_food_items_from_text(parse_input))
  /\ UNCHANGED <<catalogVars, modelVars, resolveVars, searchVars, embeddings,
                 wanted, parse_input, reparsed, apiVars>>

PricedLine(item) == item.name \o <<":", " ">> \o item.price_text.v

Reparse ==
  /\ parse_output.some
  /\ reparsed = None
  /\ \E i \in 1..Len(parse_output.v) :
        /\ parse_output.v[i].price_text.some
        /\ reparsed' =
             Some([item |-> parse_output.v[i],
                   out |-> parse_food_items_from_text(
                             PricedLine(parse_output.v[i]))])
  /\ UNCHANGED <<catalogVars, modelVars, resolveVars, searchVars, embeddings,
                 wanted, parse_input, parse_output, apiVars>>

NextParse == ParseCall \/ Reparse

SpecParse == InitParse /\ [][NextParse]_vars

(***************************************************************************)
(* Properties of the line parser (SpecParse)                               *)
(***************************************************************************)
Parsed == parse_output.some

InputLines == SplitLines(parse_input)

\* the input lines that are not empty after trimming, trimmed, in order
NonBlankLines ==
  LET kept == SelectSeq(InputLines, LAMBDA l : ~AllWhitespace(l))
  IN  [k \in 1..Len(kept) |-> Strip(kept[k])]

HasSeparator(l) == \E m \in 1..Len(l) : l[m] \in Separators

FirstSep(l) ==
  CHOOSE m \in 1..Len(l) :
    l[m] \in Separators /\ \A n \in 1..(m - 1) : l[n] \notin Separators

\* the trimmed text before the first separator, and the trimmed text after
NameSide(l) == Strip(SubSeq(l, 1, FirstSep(l) - 1))
PriceSide(l) == Strip(SubSeq(l, FirstSep(l) + 1, Len(l)))

OneSided(l) ==
  HasSeparator(l) /\ (NameSide(l) = <<>> \/ PriceSide(l) = <<>>)

\* the non-blank lines that have text before their first separator, or no
\* separator at all
NamedLines ==
  SelectSeq(NonBlankLines,
            LAMBDA l : ~HasSeparator(l) \/ NameSide(l) # <<>>)

\* C11: every item returned has a non-empty name without leading or
\* trailing whitespace, and blank lines yield no item: there are never more
\* items than non-blank lines.
C11_ItemsNamed ==
  Parsed =>
    /\ \A i \in 1..Len(parse_output.v) :
         LET name == parse_output.v[i].name
         IN  /\ name # <<>>
             /\ Head(name) \notin Whitespace
             /\ name[Len(name)] \notin Whitespace
    /\ Len(parse_output.v) <= Len(NonBlankLines)

C11_Witness ==
  /\ Parsed
  /\ parse_output.v # <<>>
  /\ Len(InputLines) > Len(NonBlankLines)
  /\ \E k \in 1..Len(InputLines) :
       InputLines[k] # <<>> /\ InputLines[k] # Strip(InputLines[k])

\* C12 as stated: the items are, in order, one per non-blank line.
C12_OneItemPerNonBlankLine ==
  Parsed =>
    /\ Len(parse_output.v) = Len(NonBlankLines)
    /\ \A k \in 1..Len(NonBlankLines) :
         parse_output.v[k] = ParseLine(NonBlankLines[k])

\* C12 amended: the items are, in order and without deduplication, one per
\* non-blank line that does not start with a separator.
C12_OneItemPerNamedLine ==
  Parsed =>
    /\ Len(parse_output.v) = Len(NamedLines)
    /\ \A k \in 1..Len(NamedLines) :
         parse_output.v[k] = ParseLine(NamedLines[k])

C12_Witness ==
  /\ Parsed
  /\ Len(NamedLines) >= 2
  /\ Len(NonBlankLines) > Len(NamedLines)
  /\ parse_output.v[1] = parse_output.v[2]

\* C13 as stated: a line with a separator and nothing on one side of it
\* yields an item whose name is the whole trimmed line and whose price is
\* absent.
C13_OneSidedIsNoMatch ==
  Parsed =>
    \A k \in 1..Len(NonBlankLines) :
      OneSided(NonBlankLines[k]) =>
        \E i \in 1..Len(parse_output.v) :
          parse_output.v[i] =
            [name |-> NonBlankLines[k], price_text |-> None]

\* C13 amended: a line with nothing before its first separator yields no
\* item, and a line with a name and nothing after the separator yields an
\* item with that name and the empty string as price.
C13_OneSidedLines ==
  Parsed =>
    /\ Len(parse_output.v) = Len(NamedLines)
    /\ \A k \in 1..Len(NamedLines) :
         OneSided(NamedLines[k]) =>
           parse_output.v[k] =
             [name |-> NameSide(NamedLines[k]), price_text |-> Some(<<>>)]

C13_Witness ==
  /\ Parsed
  /\ \E k \in 1..Len(NonBlankLines) :
       HasSeparator(NonBlankLines[k]) /\ NameSide(NonBlankLines[k]) = <<>>
  /\ \E k \in 1..Len(NamedLines) : OneSided(NamedLines[k])

\* C14: a line with text before its first separator gives the trimmed text
\* before that separator as name and the whole trimmed rest as price, later
\* separators included; a line without separator gives the line as name and
\* no price.
C14_SplitAtFirstSeparator ==
  Parsed =>
    /\ Len(parse_output.v) = Len(NamedLines)
    /\ \A k \in 1..Len(NamedLines) :
         LET l == NamedLines[k]
         IN  parse_output.v[k] =
               IF HasSeparator(l)
               THEN [name |-> NameSide(l), price_text |-> Some(PriceSide(l))]
               ELSE [name |-> l, price_text |-> None]

C14_Witness ==
  /\ Parsed
  /\ \E i \in 1..Len(parse_output.v) :
       /\ parse_output.v[i].price_text.some
       /\ HasSeparator(parse_output.v[i].price_text.v)
  /\ \E k \in 1..Len(NamedLines) :
       HasSeparator(NamedLines[k]) /\ NamedLines[k][FirstSep(NamedLines[k]) - 1] = " "

\* C15: an item with a price, written out as name + ": " + price and parsed
\* again, gives exactly that item back.
C15_RoundTrip ==
  reparsed.some => reparsed.v.out = <<reparsed.v.item>>

C15_Witness ==
  /\ reparsed.some
  /\ HasSeparator(reparsed.v.item.price_text.v)
  /\ Len(parse_output.v) >= 2

(***************************************************************************)
(* Properties of the embedding provider (SpecEmbed)                        *)
(***************************************************************************)
\* C16: the model is constructed once, at import, and never again; the
\* model and its dimension never change afterwards; after a failed load
\* every get_embedding call returns None.
C16_LoadedOnce ==
  /\ [](/\ loads = 1
        /\ embedding_model = None =>
             \A i \in 1..Len(embeddings) : embeddings[i].result = None)
  /\ [][/\ embedding_model' = embedding_model
        /\ EMBEDDING_DIM' = EMBEDDING_DIM
        /\ loads' = loads]_vars

C16_Witness ==
  /\ embedding_model = None
  /\ Len(embeddings) >= 2
  /\ \E i \in 1..Len(embeddings) : embeddings[i].encoded.ok

(***************************************************************************)
(* Properties of resolve called with other top_k / threshold               *)
(* (SpecOverride)                                                          *)
(***************************************************************************)
\* C17 as stated: the search performed for every item uses the top_k and
\* the threshold the caller of resolve supplies.
C17_CallerValuesUsed ==
  \A i \in CallIndexes :
    /\ calls[i].top_k = wanted.top_k
    /\ calls[i].threshold = wanted.threshold

\* C17 amended: whatever the caller of resolve wants, the search performed
\* for every item uses the defaults TOP_K_RESULTS and SIMILARITY_THRESHOLD.
C17_DefaultsUsed ==
  \A i \in CallIndexes :
    /\ calls[i].top_k = TOP_K_RESULTS
    /\ calls[i].threshold = SIMILARITY_THRESHOLD

C17_Witness ==
  /\ pc = "done"
  /\ wanted # DefaultArgs
  /\ \E i \in 1..Len(results) : Len(results[i].similar_foods) > wanted.top_k

(***************************************************************************)
(* Properties of the menus / foods API (SpecApi)                           *)
(***************************************************************************)
FoodFields == {"name", "description", "menu_id"}
MenuFields == {"ocr_text", "original_image_url"}

\* the fields of a payload that are unset or None
NotGiven(update, fields) ==
  { f \in fields : ~update[f].set \/ update[f].value = None }

\* C18 as stated: a food update that succeeds leaves every field that is
\* unset or None in the payload as it was stored, and every other record
\* as it was; a menu update likewise; an update of a missing id returns
\* None and changes nothing.
C18_NoneKeepsStored ==
  [][/\ \A food_id \in ApiFoodIds, food_in \in FoodUpdates :
          (/\ response'.op = "update_existing_food"
           /\ response'.id = food_id
           /\ foods' = update_food(foods, menus, foreign_keys,
                                   food_id, food_in).foods)
          => IF food_id \in DOMAIN foods
             THEN /\ \A f \in NotGiven(food_in, FoodFields) :
                       foods'[food_id][f] = foods[food_id][f]
                  /\ \A id \in DOMAIN foods \ {food_id} :
                       foods'[id] = foods[id]
                  /\ menus' = menus
             ELSE response'.ret = "None" /\ catalogVars' = catalogVars
     /\ \A menu_id \in MenuRefs, menu_in \in MenuUpdates :
          (/\ response'.op = "update_existing_menu"
           /\ response'.id = menu_id
           /\ menus' = update_menu(foods, menus, menu_id, menu_in).menus)
          => IF menu_id \in DOMAIN menus
             THEN /\ \A f \in NotGiven(menu_in, MenuFields) :
                       menus'[menu_id][f] = menus[menu_id][f]
                  /\ \A id \in DOMAIN menus \ {menu_id} :
                       menus'[id] = menus[id]
                  /\ foods' = foods
             ELSE response'.ret = "None" /\ catalogVars' = catalogVars]_vars

\* C19 as stated: every stored Food's menu_id is the id of a stored Menu.
C19_FoodsReferToMenus ==
  \A id \in DOMAIN foods : foods[id].menu_id \in DOMAIN menus

\* the request answered by this step named an id that was not stored
TargetMissing ==
  \/ /\ response'.op \in {"update_existing_food", "delete_existing_food"}
     /\ response'.id \notin DOMAIN foods
  \/ /\ response'.op \in {"create_new_food", "update_existing_menu",
                          "delete_existing_menu"}
     /\ response'.id \notin DOMAIN menus

\* C20: a request that names an id that is not stored is answered 404
\* (create_food_for_menu raised ValueError, the others returned None) and
\* leaves both tables as they were.
C20_MissingIdIsNotFound ==
  [][TargetMissing =>
       /\ response'.status = 404
       /\ response'.ret =
            IF response'.op = "create_new_food" THEN "ValueError" ELSE "None"
       /\ catalogVars' = catalogVars]_vars

C20_Witness ==
  /\ response.op = "create_new_food"
  /\ response.ret = "ValueError"
  /\ response.id \notin DOMAIN menus
  /\ DOMAIN foods # {}
  /\ DOMAIN menus # {}
====
